---- MODULE Spec2Model ----
(***************************************************************************)
(* FramesSequenceND (src/base_frames.py): the axis registry, the planner   *)
(* _make_get_frame with its wrappers _drop, _bundle and _transpose, and    *)
(* the facade (bundle_axes, iter_axes, default_coords, __len__,            *)
(* get_frame).                                                             *)
(*                                                                         *)
(* An array is modelled by its labelled dimensions: a sequence of          *)
(* [ax, n] (the axis the dimension ranges over and its extent), and `pin`, *)
(* the coordinates at which every other axis was read.  A synthesized      *)
(* get-frame function is modelled by the values its closures capture: the  *)
(* native method and the wrappers stacked on it, innermost first.          *)
(***************************************************************************)
EXTENDS Integers, Sequences, FiniteSets, TLC

VARIABLES
    methods,        \* keys of get_frame_dict, in the order _iter_attr yields them
    has2D,          \* hasattr(self, 'get_frame_2D')
    hashOrder,      \* the order in which list(<set of axis names>) lists names
    failing,        \* coordinates [ax, v] at which the read methods raise IOError
    sizes,          \* self._sizes
    default_coords, \* self._default_coords
    iter_axes,      \* self._iter_axes
    bundle_axes,    \* self._bundle_axes
    wrapped,        \* self._get_frame_wrapped
    last,           \* the last call made on the reader and its outcome
    meta,           \* the metadata the read methods attach to their frames
    cache,          \* WrappedReader: the attributes held in the wrapper's __dict__
    dimensions,     \* GUI.dimensions: the Dimension widgets, by name
    plugin          \* SelectionPlugin: features, _undo and _redo

\* The viewer around the reader.
gui == <<cache, dimensions, plugin>>

vars == <<methods, has2D, hashOrder, failing, sizes, default_coords, iter_axes,
          bundle_axes, wrapped, last, meta, cache, dimensions, plugin>>

\* ------------------------------------------------------------------ bounds

\* Axis names callers use.
Axes == {"c", "x", "y"}

\* Largest axis size a constructor registers.
MaxSize == 3

\* Longest value assigned to iter_axes.
MaxIterLen == 2

\* Longest value assigned to bundle_axes.
MaxBundleLen == 2

\* Most read methods a reader class tags.
MaxMethods == 2

\* Largest axis size of the planner specification.
MaxPlanSize == 3

\* Largest default coordinate a caller assigns.
MaxCoord == 3

\* Most edits of the features made in one session of the SelectionPlugin.
MaxEdits == 12

\* maxlen of the _undo and _redo deques of the SelectionPlugin.
UndoDepth == 10

\* Largest position a Dimension is followed to.
MaxPosition == 4

\* ----------------------------------------------------------------- helpers

ToSet(s) == {s[k] : k \in DOMAIN s}

IsDistinct(s) == \A j, k \in DOMAIN s : j # k => s[j] # s[k]

SeqsUpTo(S, n) == UNION {[1..m -> S] : m \in 0..n}

Perms(S) == {s \in [1..Cardinality(S) -> S] : ToSet(s) = S}

RECURSIVE Prod(_)
\* np.prod: the product of a list of numbers, 1 for the empty list.
Prod(s) == IF s = <<>> THEN 1 ELSE Head(s) * Prod(Tail(s))

\* list.index, 0-based; -1 stands for the ValueError of a missing element.
IndexOf(s, a) ==
    IF a \in ToSet(s) THEN (CHOOSE k \in DOMAIN s : s[k] = a /\ \A j \in 1..(k-1) : s[j] # a) - 1
    ELSE -1

\* del s[s.index(a)]
DelFirst(s, a) ==
    LET k == IndexOf(s, a) + 1
    IN  [j \in 1..(Len(s) - 1) |-> IF j < k THEN s[j] ELSE s[j + 1]]

Reverse(s) == [k \in 1..Len(s) |-> s[Len(s) + 1 - k]]

\* list(S) for a set S of axis names: the names in the order the hash table
\* holds them.
ListOfSet(S, order) == SelectSeq(order, LAMBDA a : a \in S)

\* The order of two sort keys, tuples of integers: as Python compares tuples.
RECURSIVE KeyLess(_, _)
KeyLess(a, b) ==
    IF a = <<>> \/ b = <<>> THEN a = <<>> /\ b # <<>>
    ELSE Head(a) < Head(b) \/ (Head(a) = Head(b) /\ KeyLess(Tail(a), Tail(b)))

\* The value a local variable is bound to: the element of a one-element set.
The(S) == CHOOSE v \in S : TRUE

\* A function on 1..n as a list of its values.
AsList(f) == SubSeq(f, 1, Len(f))

\* The position a stable sort moves position j of keys to: after every
\* smaller key and every equal key that stood before it.
Rank(keys, j) ==
    1 + Cardinality({i \in DOMAIN keys :
                        \/ KeyLess(keys[i], keys[j])
                        \/ (keys[i] = keys[j] /\ i < j)})

\* np.argsort of distinct integers / the permutation a stable list.sort
\* applies: positions 1..Len(keys), ordered by key, ties by position.
StableOrder(keys) ==
    The({AsList([k \in DOMAIN ks |-> CHOOSE j \in DOMAIN ks : Rank(ks, j) = k]) :
            ks \in {AsList(keys)}})

\* itertools.product(*[range(s) for s in shape]): the j-th tuple (j from 0),
\* last position fastest.
RECURSIVE NdIndex(_, _)
NdIndex(j, shape) ==
    IF shape = <<>> THEN <<>>
    ELSE LET n == Len(shape)
             front == SubSeq(shape, 1, n - 1)
         IN  Append(NdIndex(j \div shape[n], front), j % shape[n])

\* ------------------------------------------- synthesized get-frame functions

\* self._get_frame_wrapped = None
None == [err |-> "None", method |-> <<>>, layers |-> <<>>]

\* A native method as found in get_frame_dict, keyed by its axes.
Native(method) == [err |-> "", method |-> method, layers |-> <<>>]

\* A call that raised instead of returning a function.
Raised(e) == [err |-> e, method |-> <<>>, layers |-> <<>>]

\* One closure around a get-frame function, with the values it captured.
\*   "T":      nums  = transposition
\*   "drop":   nums  = axes (positions, in the order taken), names = to_drop
\*   "bundle": names = to_iter, nums = iter_shape, shape = shape
Wrap(gf, k, names, nums, shape) ==
    [gf EXCEPT !.layers =
        Append(@, [k |-> k, names |-> names, nums |-> nums, shape |-> shape])]

\* _transpose(get_frame, expected_axes, desired_axes)
Transpose(gf, expected_axes, desired_axes) ==
    IF expected_axes = desired_axes THEN gf
    ELSE IF \E k \in DOMAIN desired_axes : IndexOf(expected_axes, desired_axes[k]) < 0
         THEN Raised("ValueError")
    ELSE Wrap(gf, "T", <<>>,
              [k \in DOMAIN desired_axes |-> IndexOf(expected_axes, desired_axes[k])],
              <<>>)

\* _drop taking the axes away by ascending position.
DropOrderAscending(to_drop_inds) ==
    StableOrder([k \in DOMAIN to_drop_inds |-> <<to_drop_inds[k]>>])

\* The order in which _drop takes the axes away: indices into to_drop,
\* by descending position in expected_axes (reversed(np.argsort(to_drop_inds))).
DropOrder(to_drop_inds) ==
    Reverse(StableOrder([k \in DOMAIN to_drop_inds |-> <<to_drop_inds[k]>>]))

\* _drop(get_frame, expected_axes, to_drop): [gf, axes], axes = result_axes
Drop(gf, expected_axes, to_drop) ==
    LET to_drop_inds == [k \in DOMAIN to_drop |-> IndexOf(expected_axes, to_drop[k])]
        indices == DropOrder(to_drop_inds)
        axes == [k \in DOMAIN indices |-> to_drop_inds[indices[k]]]
        names == [k \in DOMAIN indices |-> to_drop[indices[k]]]
        result_axes == SelectSeq(expected_axes, LAMBDA a : a \notin ToSet(names))
    IN  IF \E k \in DOMAIN to_drop_inds : to_drop_inds[k] < 0
        THEN [gf |-> Raised("ValueError"), axes |-> <<>>]
        ELSE [gf |-> Wrap(gf, "drop", names, axes, <<>>), axes |-> result_axes]

\* _bundle(get_frame, expected_axes, to_iter, sizes, dtype): [gf, axes],
\* axes = bundled_axes.  is_tuple: expected_axes is a tuple, and
\* to_iter + expected_axes (a list plus a tuple) raises TypeError.
Bundle(gf, expected_axes, is_tuple, to_iter, sz) ==
    LET bundled_axes == to_iter \o expected_axes
        shape == [k \in DOMAIN bundled_axes |-> sz[bundled_axes[k]]]
        iter_shape == SubSeq(shape, 1, Len(to_iter))
    IN  IF is_tuple THEN [gf |-> Raised("TypeError"), axes |-> <<>>]
        ELSE IF \E k \in DOMAIN bundled_axes : bundled_axes[k] \notin DOMAIN sz
        THEN [gf |-> Raised("KeyError"), axes |-> <<>>]
        ELSE [gf |-> Wrap(gf, "bundle", to_iter, iter_shape, shape),
              axes |-> bundled_axes]

\* list.sort(key=...), stable: keys[k] is the key of s[k].
SortBy(s, keys) ==
    The({AsList([k \in DOMAIN p |-> s[p[k]]]) : p \in {StableOrder(keys)}})

\* The first position of a loop that is not skipped (skip[k]: the loop
\* continues at position k), as a set of at most one index.
FirstNotSkipped(skip) ==
    {k \in DOMAIN skip : ~skip[k] /\ \A j \in 1..(k - 1) : skip[j]}

\* A row whose n_iter and n_drop are 0 when there is nothing to iterate over
\* or to drop, as the loops of _make_get_frame expect.
PlanRowZeroWhenNone(method, result_axes, order, sz) ==
    LET to_iter == ListOfSet(ToSet(result_axes) \ ToSet(method), order)
        to_drop == ListOfSet(ToSet(method) \ ToSet(result_axes), order)
    IN  [method |-> method,
         to_iter |-> to_iter,
         n_iter |-> IF to_iter = <<>> THEN 0
                    ELSE Prod([k \in DOMAIN to_iter |-> sz[to_iter[k]]]),
         to_drop |-> to_drop,
         n_drop |-> IF to_drop = <<>> THEN 0
                    ELSE Prod([k \in DOMAIN to_drop |-> sz[to_drop[k]]])]

\* arr[i] = [method, axes_set, to_iter, n_iter, to_drop, n_drop]
PlanRow(method, result_axes, order, sz) ==
    LET to_iter == ListOfSet(ToSet(result_axes) \ ToSet(method), order)
        to_drop == ListOfSet(ToSet(method) \ ToSet(result_axes), order)
    IN  [method |-> method,
         to_iter |-> to_iter,
         n_iter |-> Prod([k \in DOMAIN to_iter |-> sz[to_iter[k]]]),
         to_drop |-> to_drop,
         n_drop |-> Prod([k \in DOMAIN to_drop |-> sz[to_drop[k]]])]

\* The last resort of _make_get_frame: drop, then bundle, then transpose.
DropBundleTranspose(row, result_axes, sz) ==
    The({IF d.gf.err # "" THEN d.gf
         ELSE The({IF b.gf.err # "" THEN b.gf
                   ELSE Transpose(b.gf, b.axes, result_axes) :
                      b \in {Bundle(d.gf, d.axes, FALSE, row.to_iter, sz)}}) :
            d \in {Drop(Native(row.method), row.method, row.to_drop)}})

\* A last resort that takes the method sorted last: the most iterations.
WorstCaseLast(arr, result_axes, sz) ==
    IF arr = <<>> THEN Raised("IndexError")
    ELSE The({DropBundleTranspose(byBoth[Len(byBoth)], result_axes, sz) :
                 byBoth \in {SortBy(arr, [k \in DOMAIN arr |->
                                             <<arr[k].n_iter, arr[k].n_drop>>])}})

\* arr.sort(key=lambda x: (x[3], x[5])) and what follows; arr comes sorted
\* by n_drop.
WorstCase(arr, result_axes, sz) ==
    IF arr = <<>> THEN Raised("IndexError")
    ELSE The({DropBundleTranspose(byBoth[1], result_axes, sz) :
                 byBoth \in {SortBy(arr, [k \in DOMAIN arr |->
                                             <<arr[k].n_iter, arr[k].n_drop>>])}})

\* The loop that drops without iterating; arr comes sorted by n_drop.
DropOnly(arr, result_axes, sz) ==
    LET noIter == FirstNotSkipped([k \in DOMAIN arr |-> arr[k].n_iter > 0])
    IN  IF noIter = {} THEN WorstCase(arr, result_axes, sz)
        ELSE The({IF d.gf.err # "" THEN d.gf
                  ELSE Transpose(d.gf, d.axes, result_axes) :
                     d \in {The({Drop(Native(r.method), r.method, r.to_drop) :
                                    r \in {arr[The(noIter)]}})}})

\* The loop that iterates without dropping; arr comes sorted by n_iter.
IterateOnly(arr, result_axes, sz) ==
    LET noDrop == FirstNotSkipped([k \in DOMAIN arr |-> arr[k].n_drop > 0])
    IN  IF noDrop = {}
        THEN The({DropOnly(byDrop, result_axes, sz) :
                     byDrop \in {SortBy(arr, [k \in DOMAIN arr |-> <<arr[k].n_drop>>])}})
        ELSE The({The({IF b.gf.err # "" THEN b.gf
                       ELSE Transpose(b.gf, r.to_iter \o r.method, result_axes) :
                          b \in {Bundle(Native(r.method), r.method, TRUE, r.to_iter, sz)}}) :
                     r \in {arr[The(noDrop)]}})

\* _make_get_frame(result_axes, get_frame_dict, sizes, dtype), with ms the
\* keys of get_frame_dict as enumerated and order the listing order of sets.
MakeGetFrame(result_axes, ms, order, sz) ==
    LET same == FirstNotSkipped([k \in DOMAIN ms |-> ToSet(ms[k]) # ToSet(result_axes)])
        known == \A k \in DOMAIN ms :
                    (ToSet(ms[k]) \cup ToSet(result_axes)) \subseteq DOMAIN sz
    IN  IF same # {}
        THEN Transpose(Native(ms[The(same)]), ms[The(same)], result_axes)
        ELSE IF ~known THEN Raised("KeyError")
        ELSE The({The({IterateOnly(byIter, result_axes, sz) :
                          byIter \in {SortBy(arr, [k \in DOMAIN arr |-> <<arr[k].n_iter>>])}}) :
                     arr \in {AsList([k \in DOMAIN ms |->
                                        PlanRow(ms[k], result_axes, order, sz)])}})

\* ------------------------------------------------- calling a get-frame function

\* frame.metadata is None, or the frame has no such attribute.
NoMd == [has |-> FALSE, d |-> <<>>]

\* A metadata value that is a scalar.
Scalar(x) == [shape |-> <<>>, v |-> <<x>>]

\* No array: what a call that raised leaves behind.
NoArray == [err |-> "", dims |-> <<>>, pin |-> <<>>, reads |-> <<>>, md |-> NoMd]

Fail(e) == [NoArray EXCEPT !.err = e]

\* A dict.update that keeps the value of a key already present.
UpdateKeepingOld(d, e) ==
    [a \in DOMAIN d \cup DOMAIN e |-> IF a \in DOMAIN d THEN d[a] ELSE e[a]]

\* dict.update
Update(d, e) ==
    [a \in DOMAIN d \cup DOMAIN e |-> IF a \in DOMAIN e THEN e[a] ELSE d[a]]

Restrict(d, S) == [a \in DOMAIN d \cap S |-> d[a]]

ShapeOf(dims) == [k \in DOMAIN dims |-> dims[k].n]

LabelsOf(dims) == [k \in DOMAIN dims |-> dims[k].ax]

\* The read method raises when asked for the coordinates ind: some axis it
\* does not return is at a coordinate where reading fails.
Raises(method, ind) ==
    \E f \in failing :
        f.ax \in DOMAIN ind \ ToSet(method) /\ ind[f.ax] = f.v

\* The coordinate of axis a in ind, 0 when ind has none.
At(ind, a) == IF a \in DOMAIN ind THEN ind[a] ELSE 0

\* The value a read method attaches for a metadata key of the given mode.
MetaValue(mode, ind) ==
    CASE mode = "c" -> At(ind, "c")
      [] mode = "y" -> At(ind, "y")
      [] mode = "index" -> At(ind, "c") * (MaxSize + 1) + At(ind, "y")
      [] OTHER -> MaxSize + 2

\* The metadata of the frame a read method returns for the coordinates ind:
\* none, or a dict with the keys "a" and "b" as far as the frame has them.
NativeMetadata(ind) ==
    IF meta.frame = "never" \/ (meta.frame = "noneAt" /\ At(ind, "c") = 1) THEN NoMd
    ELSE [has |-> TRUE,
          d |-> [k \in {key \in {"a", "b"} :
                          /\ meta[key] # "absent"
                          /\ ~(meta[key] = "absentAt" /\ At(ind, "c") = 1)} |->
                    Scalar(MetaValue(meta[k], ind))]]

\* A native read method called with **ind: an array over its own axes, read
\* at ind for every other axis, or the exception it raises.
NativeRead(method, ind, sz) ==
    IF Raises(method, ind) THEN Fail("IOError")
    ELSE [err |-> "",
          dims |-> [k \in DOMAIN method |-> [ax |-> method[k], n |-> sz[method[k]]]],
          pin |-> Restrict(ind, DOMAIN ind \ ToSet(method)),
          reads |-> <<ind>>,
          md |-> NativeMetadata(ind)]

\* An np.take that selects the first element along the axis, whatever i.
TakeFirst(r, i, ax) ==
    IF r.err # "" THEN r
    ELSE IF ax + 1 > Len(r.dims) THEN Fail("AxisError")
    ELSE [r EXCEPT
            !.dims = [k \in 1..(Len(r.dims) - 1) |->
                         IF k < ax + 1 THEN r.dims[k] ELSE r.dims[k + 1]],
            !.pin = Update(r.pin, [a \in {r.dims[ax + 1].ax} |-> 0])]

\* np.take(result, i, axis=ax) with a scalar i: the dimension at position ax
\* goes away, the axis it ranged over is pinned at i.
Take(r, i, ax) ==
    IF r.err # "" THEN r
    ELSE IF ax + 1 > Len(r.dims) THEN Fail("AxisError")
    ELSE LET d == r.dims[ax + 1]
         IN  IF i < 0 - d.n \/ i >= d.n THEN Fail("IndexError")
             ELSE [r EXCEPT
                     !.dims = [k \in 1..(Len(r.dims) - 1) |->
                                  IF k < ax + 1 THEN r.dims[k] ELSE r.dims[k + 1]],
                     !.pin = Update(r.pin, [a \in {d.ax} |-> i % d.n])]

RECURSIVE TakeAll(_, _, _, _)
\* for (ax, name) in zip(axes, to_drop): result = np.take(result, ind[name], axis=ax)
TakeAll(r, axes, names, ind) ==
    IF axes = <<>> \/ r.err # "" THEN r
    ELSE IF Head(names) \notin DOMAIN ind THEN Fail("KeyError")
    ELSE The({TakeAll(taken, Tail(axes), Tail(names), ind) :
                 taken \in {Take(r, ind[Head(names)], Head(axes))}})

\* result.transpose(transposition)
TransposeArray(r, t) ==
    IF r.err # "" THEN r
    ELSE IF Len(t) # Len(r.dims) \/ ToSet(t) # 0..(Len(t) - 1) THEN Fail("ValueError")
    ELSE [r EXCEPT !.dims = [k \in DOMAIN t |-> r.dims[t[k] + 1]]]

\* A get_frame_bundled that returns its preallocated array whether or not
\* every read succeeded.
StackPartial(frames, to_iter, iter_shape, shape) ==
    [err |-> "",
     dims |-> [k \in DOMAIN shape |->
                  [ax |-> IF k <= Len(to_iter) THEN to_iter[k] ELSE "?", n |-> shape[k]]],
     pin |-> <<>>,
     reads |-> <<>>,
     md |-> NoMd]

\* A merge of whatever metadata was collected, whether or not every frame
\* had some.
MergeMetadataOfSome(md_list, n, iter_shape) ==
    IF md_list = <<>> THEN NoMd
    ELSE [has |-> TRUE,
          d |-> [k \in {key \in DOMAIN md_list[1].d :
                          \A j \in DOMAIN md_list : key \in DOMAIN md_list[j].d} |->
                    IF \A j \in 1..(Len(md_list) - 1) : md_list[j + 1].d[k] = md_list[j].d[k]
                    THEN md_list[1].d[k]
                    ELSE [shape |-> iter_shape,
                          v |-> [j \in DOMAIN md_list |-> md_list[j].d[k].v[1]]]]]

\* The metadata get_frame_bundled propagates: md_list holds the metadata of
\* the frames that had some, in the order read, n is np.prod(iter_shape).
\* A key of the first frame that some frame lacks is left out; equal values
\* become the one value, others an array of shape iter_shape (the values
\* the read methods attach are scalars).
MergeMetadata(md_list, n, iter_shape) ==
    IF Len(md_list) # n THEN NoMd
    ELSE [has |-> TRUE,
          d |-> [k \in {key \in DOMAIN md_list[1].d :
                          \A j \in DOMAIN md_list : key \in DOMAIN md_list[j].d} |->
                    IF \A j \in 1..(Len(md_list) - 1) : md_list[j + 1].d[k] = md_list[j].d[k]
                    THEN md_list[1].d[k]
                    ELSE [shape |-> iter_shape,
                          v |-> [j \in DOMAIN md_list |-> md_list[j].d[k].v[1]]]]]

\* The array get_frame_bundled fills: frames[j] is the frame read at the
\* j-th tuple of product(*[range(s) for s in iter_shape]), and
\* result[indices] = frame stores it at that tuple.  Leading dimension k
\* ranges over the axis to_iter[k] when every slice holds the frame read at
\* the slice's own index along that axis ("?" otherwise).
Stack(frames, to_iter, iter_shape, shape) ==
    LET rest == SubSeq(shape, Len(to_iter) + 1, Len(shape))
        bad == {j \in DOMAIN frames : frames[j].err # ""}
        front == [k \in DOMAIN to_iter |->
                    [ax |-> IF \A j \in DOMAIN frames :
                                  /\ to_iter[k] \in DOMAIN frames[j].pin
                                  /\ frames[j].pin[to_iter[k]] = NdIndex(j - 1, iter_shape)[k]
                            THEN to_iter[k] ELSE "?",
                     n |-> iter_shape[k]]]
        reads == [j \in DOMAIN frames |-> frames[j].reads]
    IN  IF bad # {} THEN frames[CHOOSE j \in bad : \A i \in bad : j <= i]
        ELSE IF \E j \in DOMAIN frames : ShapeOf(frames[j].dims) # rest
        THEN Fail("ValueError")
        ELSE IF frames = <<>> THEN Fail("IndexError")
        ELSE [err |-> "",
              md |-> MergeMetadata(SelectSeq([j \in DOMAIN frames |-> frames[j].md],
                                             LAMBDA m : m.has),
                                   Prod(iter_shape), iter_shape),
              dims |-> front \o frames[1].dims,
              pin |-> Restrict(frames[1].pin, DOMAIN frames[1].pin \ ToSet(to_iter)),
              reads |-> [k \in 1..(Len(frames) * Len(frames[1].reads)) |->
                           reads[((k - 1) \div Len(frames[1].reads)) + 1]
                                [((k - 1) % Len(frames[1].reads)) + 1]]]

RECURSIVE Call(_, _, _, _)
\* gf(obj, **ind) through the n innermost wrappers of gf.
Call(gf, n, ind, sz) ==
    IF n = 0 THEN NativeRead(gf.method, ind, sz)
    ELSE LET w == gf.layers[n]
         IN  CASE w.k = "T" ->
                    The({TransposeArray(r, w.nums) : r \in {Call(gf, n - 1, ind, sz)}})
               [] w.k = "drop" ->
                    The({TakeAll(r, w.nums, w.names, ind) : r \in {Call(gf, n - 1, ind, sz)}})
               [] w.k = "bundle" ->
                    The({Stack(frames, w.names, w.nums, w.shape) :
                            frames \in {AsList([j \in 1..Prod(w.nums) |->
                                The({Call(gf, n - 1, updated, sz) :
                                        updated \in {Update(ind, [a \in ToSet(w.names) |->
                                            NdIndex(j - 1, w.nums)[IndexOf(w.names, a) + 1]])}})])}})

\* self._get_frame_wrapped(**coords)
CallWrapped(gf, ind, sz) == Call(gf, Len(gf.layers), ind, sz)

\* ------------------------------------------------------------------ facade

\* len() as the sum of the sizes of the axes in iter_axes.
LengthAsSum ==
    LET n[k \in 0..Len(iter_axes)] ==
            IF k = 0 THEN 0 ELSE n[k - 1] + sizes[iter_axes[k]]
    IN  n[Len(iter_axes)]

\* __len__
Length == Prod([k \in DOMAIN iter_axes |-> sizes[iter_axes[k]]])

\* frame_shape
FrameShape == [k \in DOMAIN bundle_axes |-> sizes[bundle_axes[k]]]

\* invalid = [k for k in value if k not in self._sizes]
Invalid(names) == {a \in names : a \notin DOMAIN sizes}

RECURSIVE RemoveEach(_, _)
\* for k in value: if k in lst: del lst[lst.index(k)]
RemoveEach(lst, value) ==
    IF value = <<>> THEN lst
    ELSE RemoveEach(IF Head(value) \in ToSet(lst) THEN DelFirst(lst, Head(value)) ELSE lst,
                    Tail(value))

\* A get_frame_dict that takes get_frame_2D whenever the reader has one.
GetFrameDictPreferring2D ==
    IF has2D THEN << <<"y", "x">> >> ELSE methods

\* The keys of get_frame_dict: the tagged methods, else ('y', 'x') for an
\* untagged get_frame_2D.
GetFrameDict ==
    IF methods # <<>> THEN methods
    ELSE IF has2D THEN << <<"y", "x">> >>
    ELSE <<>>

\* A bundle_axes setter that stores the value and leaves planning, and its
\* failure, to the first get_frame.
BundleAxesSetterDeferred(value) ==
    IF Invalid(ToSet(value)) # {}
    THEN [err |-> "ValueError", iter_axes |-> iter_axes,
          bundle_axes |-> bundle_axes, wrapped |-> wrapped]
    ELSE [err |-> "", iter_axes |-> RemoveEach(iter_axes, value),
          bundle_axes |-> value, wrapped |-> None]

\* The bundle_axes setter run on the current state: what it raises ("" when
\* it returns) and the fields it leaves behind.
BundleAxesSetter(value) ==
    LET kept == [err |-> "ValueError", iter_axes |-> iter_axes,
                 bundle_axes |-> bundle_axes, wrapped |-> wrapped]
        stored == [kept EXCEPT !.iter_axes = RemoveEach(iter_axes, value),
                               !.bundle_axes = value]
    IN  IF Invalid(ToSet(value)) # {} THEN kept
        ELSE IF GetFrameDict = <<>> THEN [stored EXCEPT !.err = "RuntimeError"]
        ELSE The({IF plan.err # "" THEN [stored EXCEPT !.err = plan.err]
                  ELSE [stored EXCEPT !.err = "", !.wrapped = plan] :
                     plan \in {MakeGetFrame(value, GetFrameDict, hashOrder, sizes)}})

\* np.cumprod
CumProd(s) == [k \in DOMAIN s |-> Prod(SubSeq(s, 1, k))]

\* iter_cumsizes with the first axis as the fastest digit.
IterCumSizesForward(iter_sizes) ==
    LET cum == CumProd(iter_sizes)
    IN  <<1>> \o [k \in 1..(Len(cum) - 1) |-> cum[k]]

\* np.append(np.cumprod(iter_sizes[::-1])[-2::-1], 1)
IterCumSizes(iter_sizes) ==
    LET cum == CumProd(Reverse(iter_sizes))
    IN  Append([k \in 1..(Len(cum) - 1) |-> cum[Len(cum) - k]], 1)

\* (i // iter_cumsizes) % iter_sizes
IterCoords(i, iter_sizes) ==
    LET iter_cumsizes == IterCumSizes(iter_sizes)
    IN  [k \in DOMAIN iter_sizes |->
            IF iter_sizes[k] = 0 THEN 0 ELSE (i \div iter_cumsizes[k]) % iter_sizes[k]]

\* coords: a copy of the default coordinates dc updated with the iteration
\* coordinates (a name listed twice keeps the later coordinate).
CoordsFrom(dc, i, iters) ==
    LET iter_coords == IterCoords(i, [k \in DOMAIN iters |-> sizes[iters[k]]])
    IN  Update(dc,
               [a \in ToSet(iters) |->
                   iter_coords[CHOOSE k \in DOMAIN iters :
                                  iters[k] = a /\ \A j \in DOMAIN iters : iters[j] = a => j <= k]])

\* coords of get_frame(i) on the reader as it is.
Coords(i, iters) == CoordsFrom(default_coords, i, iters)

\* The record of a call: what it raised, and for get_frame the index asked
\* for, the Frame returned and the number of native reads made.
Called(op, err, i, frame) ==
    [op |-> op, err |-> err, i |-> i,
     dims |-> frame.dims, pin |-> frame.pin, nreads |-> Len(frame.reads),
     md |-> frame.md]

\* reader.bundle_axes = value
SetBundleAxes(value) ==
    \E r \in {BundleAxesSetter(value)} :
        /\ iter_axes' = r.iter_axes
        /\ bundle_axes' = r.bundle_axes
        /\ wrapped' = r.wrapped
        /\ last' = Called("bundle_axes", r.err, 0, NoArray)
        /\ UNCHANGED <<meta, gui, methods, has2D, hashOrder, failing, sizes, default_coords>>

\* An iter_axes setter that discards the cached function when it takes an
\* axis out of bundle_axes.
SetIterAxesInvalidating(value) ==
    /\ IF Invalid(ToSet(value)) # {}
       THEN /\ last' = Called("iter_axes", "ValueError", 0, NoArray)
            /\ UNCHANGED <<iter_axes, bundle_axes, wrapped>>
       ELSE /\ bundle_axes' = RemoveEach(bundle_axes, value)
            /\ iter_axes' = value
            /\ wrapped' = IF bundle_axes' = bundle_axes THEN wrapped ELSE None
            /\ last' = Called("iter_axes", "", 0, NoArray)
    /\ UNCHANGED <<meta, gui, methods, has2D, hashOrder, failing, sizes, default_coords>>

\* reader.iter_axes = value
SetIterAxes(value) ==
    /\ IF Invalid(ToSet(value)) # {}
       THEN /\ last' = Called("iter_axes", "ValueError", 0, NoArray)
            /\ UNCHANGED <<iter_axes, bundle_axes>>
       ELSE /\ bundle_axes' = RemoveEach(bundle_axes, value)
            /\ iter_axes' = value
            /\ last' = Called("iter_axes", "", 0, NoArray)
    /\ UNCHANGED <<meta, gui, methods, has2D, hashOrder, failing, sizes, default_coords, wrapped>>

\* A default_coords setter that applies the registered keys of a mapping
\* before it raises for the others.
SetDefaultCoordsThenValidate(value) ==
    /\ default_coords' = Update(default_coords, Restrict(value, DOMAIN sizes))
    /\ last' = Called("default_coords",
                      IF Invalid(DOMAIN value) # {} THEN "ValueError" ELSE "", 0, NoArray)
    /\ UNCHANGED <<meta, gui, methods, has2D, hashOrder, failing, sizes, iter_axes, bundle_axes, wrapped>>

\* reader.default_coords = value
SetDefaultCoords(value) ==
    /\ IF Invalid(DOMAIN value) # {}
       THEN /\ last' = Called("default_coords", "ValueError", 0, NoArray)
            /\ UNCHANGED default_coords
       ELSE /\ default_coords' = Update(default_coords, value)
            /\ last' = Called("default_coords", "", 0, NoArray)
    /\ UNCHANGED <<meta, gui, methods, has2D, hashOrder, failing, sizes, iter_axes, bundle_axes, wrapped>>

\* An _init_axis that registers the axis again, with the new size and default.
InitAxisOverwriting(name, size, default) ==
    /\ sizes' = Update(sizes, [a \in {name} |-> size])
    /\ default_coords' = Update(default_coords, [a \in {name} |-> default])
    /\ last' = Called("_init_axis",
                      IF name \in DOMAIN sizes THEN "ValueError" ELSE "", 0, NoArray)
    /\ UNCHANGED <<meta, gui, methods, has2D, hashOrder, failing, iter_axes, bundle_axes, wrapped>>

\* self._init_axis(name, size, default).  On an object that has no _sizes
\* attribute yet (nothing was called on it: last.op = "__new__") the call
\* runs _clear_axes first.
InitAxis(name, size, default) ==
    /\ IF last.op = "__new__"
       THEN /\ sizes' = [a \in {name} |-> size]
            /\ default_coords' = [a \in {name} |-> default]
            /\ iter_axes' = <<>>
            /\ bundle_axes' = <<>>
            /\ wrapped' = None
            /\ last' = Called("_init_axis", "", 0, NoArray)
       ELSE IF name \in DOMAIN sizes
       THEN /\ last' = Called("_init_axis", "ValueError", 0, NoArray)
            /\ UNCHANGED <<sizes, default_coords, iter_axes, bundle_axes, wrapped>>
       ELSE /\ sizes' = Update(sizes, [a \in {name} |-> size])
            /\ default_coords' = Update(default_coords, [a \in {name} |-> default])
            /\ last' = Called("_init_axis", "", 0, NoArray)
            /\ UNCHANGED <<iter_axes, bundle_axes, wrapped>>
    /\ UNCHANGED <<meta, gui, methods, has2D, hashOrder, failing>>

\* reader.get_frame(i)
GetFrame(i) ==
    /\ IF i > Length
       THEN /\ last' = Called("get_frame", "IndexError", i, NoArray)
            /\ UNCHANGED <<iter_axes, bundle_axes, wrapped>>
       ELSE \E kick \in {IF wrapped = None THEN BundleAxesSetter(bundle_axes)
                          ELSE [err |-> "", iter_axes |-> iter_axes,
                                bundle_axes |-> bundle_axes, wrapped |-> wrapped]} :
              \E coords \in {Coords(i, kick.iter_axes)} :
                \E result \in {IF kick.err # "" THEN Fail(kick.err)
                                ELSE CallWrapped(kick.wrapped, coords, sizes)} :
                    /\ iter_axes' = kick.iter_axes
                    /\ bundle_axes' = kick.bundle_axes
                    /\ wrapped' = kick.wrapped
                    /\ last' = Called("get_frame", result.err, i, result)
    /\ UNCHANGED <<meta, gui, methods, has2D, hashOrder, failing, sizes, default_coords>>

\* ------------------------------------------------------------------ viewer

\* The reader and the WrappedReader around it, as one value a handler passes
\* from one statement to the next: the reader's fields, the wrapper's
\* __dict__ (cache), and the exception raised so far ("" for none).
ReaderNow ==
    [cache |-> cache, iter_axes |-> iter_axes, bundle_axes |-> bundle_axes,
     default_coords |-> default_coords, wrapped |-> wrapped, err |-> ""]

\* An entry of the wrapper's __dict__ that is the very object the reader
\* holds: it shows what the reader does to that object in place.
Alias == [alias |-> TRUE, val |-> <<>>]

\* An entry of the wrapper's __dict__ that is an object of its own.
Own(value) == [alias |-> FALSE, val |-> value]

\* FramesSequenceND.iter_axes setter on r.
RdSetIterAxes(r, value) ==
    IF Invalid(ToSet(value)) # {} THEN [r EXCEPT !.err = "ValueError"]
    ELSE [r EXCEPT !.bundle_axes = RemoveEach(@, value), !.iter_axes = value]

\* FramesSequenceND.bundle_axes setter on r.
RdSetBundleAxes(r, value) ==
    IF Invalid(ToSet(value)) # {} THEN [r EXCEPT !.err = "ValueError"]
    ELSE IF GetFrameDict = <<>>
    THEN [r EXCEPT !.iter_axes = RemoveEach(@, value), !.bundle_axes = value,
                   !.err = "RuntimeError"]
    ELSE The({[r EXCEPT !.iter_axes = RemoveEach(@, value), !.bundle_axes = value,
                        !.err = plan.err,
                        !.wrapped = IF plan.err = "" THEN plan ELSE @] :
                 plan \in {MakeGetFrame(value, GetFrameDict, hashOrder, sizes)}})

\* FramesSequenceND.default_coords setter on r.
RdSetDefaultCoords(r, value) ==
    IF Invalid(DOMAIN value) # {} THEN [r EXCEPT !.err = "ValueError"]
    ELSE [r EXCEPT !.default_coords = Update(@, value)]

\* The kick of get_frame: self.bundle_axes = tuple(self.bundle_axes) binds
\* the reader to a new list, and an entry of the wrapper that was the old
\* list keeps the old list.
RdKick(r) ==
    IF r.wrapped # None THEN r
    ELSE The({[k EXCEPT !.cache =
                  IF "bundle_axes" \in DOMAIN r.cache /\ r.cache["bundle_axes"].alias
                  THEN Update(r.cache, [a \in {"bundle_axes"} |-> Own(r.bundle_axes)])
                  ELSE r.cache] :
                 k \in {RdSetBundleAxes(r, r.bundle_axes)}})

\* FramesSequenceND.get_frame(i) on r: [r, frame].
RdGetFrame(r, i) ==
    IF i > Prod([k \in DOMAIN r.iter_axes |-> sizes[r.iter_axes[k]]])
    THEN [r |-> [r EXCEPT !.err = "IndexError"], frame |-> Fail("IndexError")]
    ELSE The({IF k.err # "" THEN [r |-> k, frame |-> Fail(k.err)]
              ELSE The({[r |-> [k EXCEPT !.err = frame.err], frame |-> frame] :
                           frame \in {CallWrapped(k.wrapped,
                                          CoordsFrom(k.default_coords, i, k.iter_axes),
                                          sizes)}}) :
                 k \in {RdKick(r)}})

\* The attributes the viewer reads and writes through the wrapper.
WrappedAttrs == {"bundle_axes", "iter_axes", "default_coords"}

\* WrappedReader.__getattr__ runs only for a name that is not in the
\* wrapper's __dict__; it stores the reader's object there.
WrapperGetAttr(r, attr) ==
    IF attr \in DOMAIN r.cache THEN r
    ELSE [r EXCEPT !.cache = Update(@, [a \in {attr} |-> Alias])]

\* The value wrapper.attr evaluates to on r.
WrapperValue(r, attr) ==
    IF attr \in DOMAIN r.cache /\ ~r.cache[attr].alias THEN r.cache[attr].val
    ELSE r[attr]

\* WrappedReader.__setattr__: the value goes into the wrapper's __dict__,
\* then to the reader's setter.
WrapperSetAttr(r, attr, value) ==
    IF r.err # "" THEN r
    ELSE The({CASE attr = "bundle_axes" -> RdSetBundleAxes(stored, value)
                [] attr = "iter_axes" -> RdSetIterAxes(stored, value)
                [] attr = "default_coords" -> RdSetDefaultCoords(stored, value) :
                 stored \in {[r EXCEPT !.cache = Update(@, [a \in {attr} |-> Own(value)])]}})

\* The reader and wrapper fields a handler leaves behind.
Leaves(r) ==
    /\ cache' = r.cache
    /\ iter_axes' = r.iter_axes
    /\ bundle_axes' = r.bundle_axes
    /\ default_coords' = r.default_coords
    /\ wrapped' = r.wrapped

\* value = wrapper.attr
WrapperGet(attr) ==
    /\ \E r \in {WrapperGetAttr(ReaderNow, attr)} : Leaves(r)
    /\ last' = Called("__getattr__", "", 0, NoArray)
    /\ UNCHANGED <<meta, dimensions, plugin, methods, has2D, hashOrder, failing, sizes>>

\* wrapper.attr = value
WrapperSet(attr, value) ==
    /\ \E r \in {WrapperSetAttr(ReaderNow, attr, value)} :
          /\ Leaves(r)
          /\ last' = Called(attr, r.err, 0, NoArray)
    /\ UNCHANGED <<meta, dimensions, plugin, methods, has2D, hashOrder, failing, sizes>>

\* wrapper[i], around a FramesSequenceND (__getitem__ of the base class
\* taken as get_frame)
WrapperGetItem(i) ==
    /\ \E g \in {RdGetFrame(ReaderNow, i)} :
          /\ Leaves(g.r)
          /\ last' = Called("get_frame", g.frame.err, i, g.frame)
    /\ UNCHANGED <<meta, dimensions, plugin, methods, has2D, hashOrder, failing, sizes>>

RECURSIVE FrameNoLoop(_, _, _, _)
\* The loop of get_frame_no over axes (reversed(frame_axes)), entered with
\* the given iter_size and frame_no.
FrameNoLoop(indices, axes, iter_size, frame_no) ==
    IF axes = <<>> THEN frame_no
    ELSE FrameNoLoop(indices, Tail(axes),
                     iter_size * indices[Head(axes)],
                     frame_no + iter_size * indices[Head(axes)])

\* get_frame_no(indices, frame_axes)
GetFrameNo(indices, frame_axes) == FrameNoLoop(indices, Reverse(frame_axes), 1, 0)

\* deque.append on a deque with maxlen UndoDepth: a full deque drops its
\* oldest entry.
DequeAppend(q, x) ==
    IF Len(q) = UndoDepth THEN Append(Tail(q), x) ELSE Append(q, x)

\* A set_features that leaves the redo stack as it is.
PlSetFeaturesKeepingRedo(p, new_f) ==
    [features |-> new_f, undo |-> DequeAppend(p.undo, p.features), redo |-> p.redo]

\* SelectionPlugin.set_features(new_f) on p = [features, undo, redo]
PlSetFeatures(p, new_f) ==
    [features |-> new_f, undo |-> DequeAppend(p.undo, p.features), redo |-> <<>>]

\* SelectionPlugin.undo()
PlUndo(p) ==
    IF p.undo = <<>> THEN p
    ELSE [features |-> p.undo[Len(p.undo)],
          undo |-> SubSeq(p.undo, 1, Len(p.undo) - 1),
          redo |-> DequeAppend(p.redo, p.features)]

\* SelectionPlugin.redo()
PlRedo(p) ==
    IF p.redo = <<>> THEN p
    ELSE [features |-> p.redo[Len(p.redo)],
          undo |-> DequeAppend(p.undo, p.features),
          redo |-> SubSeq(p.redo, 1, Len(p.redo) - 1)]

\* An edit (hide, move, add a feature): set_features with the next version
\* of the features, versions being numbered as they are made.
SetFeatures(new_f) ==
    /\ \A k \in DOMAIN plugin.undo : plugin.undo[k] < new_f
    /\ \A k \in DOMAIN plugin.redo : plugin.redo[k] < new_f
    /\ plugin.features < new_f
    /\ plugin' = PlSetFeatures(plugin, new_f)
    /\ UNCHANGED <<meta, cache, dimensions, methods, has2D, hashOrder, failing, sizes,
                   default_coords, iter_axes, bundle_axes, wrapped, last>>

\* viewer.undo
Undo ==
    /\ plugin' = PlUndo(plugin)
    /\ UNCHANGED <<meta, cache, dimensions, methods, has2D, hashOrder, failing, sizes,
                   default_coords, iter_axes, bundle_axes, wrapped, last>>

\* viewer.redo
Redo ==
    /\ plugin' = PlRedo(plugin)
    /\ UNCHANGED <<meta, cache, dimensions, methods, has2D, hashOrder, failing, sizes,
                   default_coords, iter_axes, bundle_axes, wrapped, last>>

\* ---------------------------------------------------------------- dimension

\* Dimension._fps as the class defines it.
DefaultFps == 5

\* Dimension._max_playback_fps
MaxPlaybackFps == 5

\* The keys of GUI.dimensions, in the order init_dimensions inserts them.
DimNames == <<"t", "v", "z", "c", "x", "y">>

\* A Dimension(name, 0) as its constructor leaves it: the slider, whose
\* range was 0..99, is given the maximum -1 before valueChanged is
\* connected, and the widget is hidden.
NewDimension ==
    [size |-> 0, position |-> 0, slider |-> -1, smin |-> -1, smax |-> -1,
     playing |-> FALSE, playable |-> FALSE, mergeable |-> FALSE, merge |-> FALSE,
     fps |-> DefaultFps, enabled |-> FALSE]

\* GUI.dimensions after init_dimensions.
NewDimensions ==
    [d \in ToSet(DimNames) |->
        [NewDimension EXCEPT !.playable = d \notin {"x", "y"},
                             !.mergeable = d \in {"c", "z", "v"}]]

\* The reader pims.open returns, inside a new WrappedReader.
NewReader ==
    [cache |-> <<>>, iter_axes |-> <<>>, bundle_axes |-> <<>>,
     default_coords |-> [a \in DOMAIN sizes |-> 0], wrapped |-> None, err |-> ""]

\* The viewer as one value a handler passes from one statement to the next:
\* the Dimension widgets, the reader with its wrapper, the dimensions whose
\* play_event was handled so far, and the frame fetched last.
GuiNow == [dims |-> dimensions, r |-> ReaderNow, played |-> <<>>, frame |-> NoArray]

RECURSIVE CoordsLoop(_, _, _)
\* The loop of get_current_frame over the dimensions names: a merged
\* dimension that is not in reader.bundle_axes is added to it.
CoordsLoop(r, dims, names) ==
    IF names = <<>> THEN r
    ELSE IF Head(names) \notin DOMAIN sizes THEN CoordsLoop(r, dims, Tail(names))
    ELSE IF dims[Head(names)].merge
            /\ Head(names) \notin ToSet(WrapperValue(r, "bundle_axes"))
    THEN CoordsLoop(WrapperSetAttr(r, "bundle_axes",
                                   Append(WrapperValue(r, "bundle_axes"), Head(names))),
                    dims, Tail(names))
    ELSE CoordsLoop(r, dims, Tail(names))

\* The index get_current_frame asks the reader for.
CurrentIndex(r, dims) ==
    IF Len(WrapperValue(r, "iter_axes")) > 0
    THEN IF WrapperValue(r, "iter_axes")[1] \in DOMAIN dims
         THEN dims[WrapperValue(r, "iter_axes")[1]].position
         ELSE 0
    ELSE 0

\* reader[i], and reader[0] after an IndexError
FetchFrame(r, i) ==
    IF r.err # "" THEN [r |-> r, frame |-> Fail(r.err)]
    ELSE The({IF got.frame.err = "IndexError" THEN RdGetFrame(r, 0) ELSE got :
                 got \in {RdGetFrame(r, i)}})

\* GUI.get_current_frame (the axes of the array it returns are swapped for
\* display only)
GetCurrentFrame(g) ==
    The({The({[g EXCEPT !.r = got.r, !.frame = got.frame] :
                 got \in {FetchFrame(one, CurrentIndex(one, g.dims))}}) :
            one \in {The({IF Len(WrapperValue(set, "iter_axes")) > 1
                          THEN WrapperSetAttr(set, "iter_axes",
                                              <<WrapperValue(set, "iter_axes")[1]>>)
                          ELSE set :
                             set \in {WrapperSetAttr(
                                         CoordsLoop(WrapperSetAttr(g.r, "bundle_axes", <<"x", "y">>),
                                                    g.dims, DimNames),
                                         "default_coords",
                                         [d \in ToSet(DimNames) \cap DOMAIN sizes |->
                                             g.dims[d].position])}})}})

\* GUI.showFrame with a reader open
ShowFrame(g) == IF g.r.err # "" THEN g ELSE GetCurrentFrame(g)

\* GUI.play_event(dimension), the slot of every Dimension.play_event; the
\* reader is a WrappedReader of length at least 1, which is truthy.
PlayEvent(g, d) ==
    IF g.r.err # "" THEN g
    ELSE The({ShowFrame([g EXCEPT
                  !.dims = IF Len(current) > 0 /\ d # current[1]
                           THEN [@ EXCEPT ![current[1]].playing = FALSE] ELSE @,
                  !.r = WrapperSetAttr(@, "iter_axes", <<d>>),
                  !.played = Append(@, d)]) :
                 current \in {WrapperValue(g.r, "iter_axes")}})

\* QAbstractSlider's bound of a value to the range of the slider of d.
Bound(dim, v) ==
    IF v < dim.smin THEN dim.smin ELSE IF v > dim.smax THEN dim.smax ELSE v

\* The position a Dimension of this size stores when it is assigned
\* position: size is added while the value is negative, and subtracted once
\* if the value is not below it.
Stored(size, position) ==
    IF position < 0 /\ size > 0 THEN position % size
    ELSE IF position < size THEN position
    ELSE position - size

RECURSIVE PositionSetter(_, _, _)
\* Dimension.update_position_from_slider, the slot of slider.valueChanged
UpdatePositionFromSlider(g, d) ==
    IF g.dims[d].slider >= 0 THEN PositionSetter(g, d, g.dims[d].slider) ELSE g

\* slider.setValue(v): the value is bound to the range, and valueChanged is
\* emitted only if the bound value differs from the slider's.
SliderSetValue(g, d, v) ==
    IF Bound(g.dims[d], v) = g.dims[d].slider THEN g
    ELSE UpdatePositionFromSlider([g EXCEPT !.dims[d].slider = Bound(g.dims[d], v)], d)

\* slider.setRange(min, max), which setMinimum and setMaximum come to: the
\* value is bound again when the range changed.
SliderSetRange(g, d, min, max) ==
    IF g.dims[d].smin = min /\ g.dims[d].smax = (IF max < min THEN min ELSE max) THEN g
    ELSE SliderSetValue([g EXCEPT !.dims[d].smin = min,
                                  !.dims[d].smax = IF max < min THEN min ELSE max],
                        d, g.dims[d].slider)

\* Dimension.position = position, on dimension d
PositionSetter(g, d, position) ==
    IF g.r.err # "" THEN g
    ELSE The({IF g.dims[d].position # set.dims[d].position THEN PlayEvent(set, d) ELSE set :
                 set \in {SliderSetValue(
                             [g EXCEPT !.dims[d].position = Stored(g.dims[d].size, position)],
                             d, Stored(g.dims[d].size, position))}})

\* Dimension.size = size
SizeSetter(g, d, size) ==
    The({The({SliderSetRange(low, d,
                             IF low.dims[d].smin < size - 1 THEN low.dims[d].smin ELSE size - 1,
                             size - 1) :
                 low \in {SliderSetRange([at0 EXCEPT !.dims[d].playing = FALSE], d, 0,
                                         IF at0.dims[d].smax > 0 THEN at0.dims[d].smax ELSE 0)}}) :
            at0 \in {PositionSetter([g EXCEPT !.dims[d].size = size], d, 0)}})

\* Dimension.merge = merge
MergeSetter(g, d, merge) ==
    IF (g.dims[d].mergeable /\ merge) # g.dims[d].merge
    THEN PlayEvent([g EXCEPT !.dims[d].merge = g.dims[d].mergeable /\ merge], d)
    ELSE g

\* int(round(self._fps / self._max_playback_fps)) for a whole fps, or 1: the
\* number of positions play_tick advances by.
TickStep(fps) ==
    IF fps > MaxPlaybackFps THEN (2 * fps + MaxPlaybackFps) \div (2 * MaxPlaybackFps)
    ELSE 1

RECURSIVE SizesLoop(_, _)
\* The loop of update_dimensions over the dimensions names.
SizesLoop(g, names) ==
    IF names = <<>> THEN g
    ELSE The({SizesLoop([sized EXCEPT !.dims[Head(names)].enabled =
                            /\ Head(names) \in DOMAIN sizes
                            /\ sizes[Head(names)] > 1
                            /\ sized.dims[Head(names)].playable],
                        Tail(names)) :
                 sized \in {SizeSetter(g, Head(names),
                                       IF Head(names) \in DOMAIN sizes
                                       THEN sizes[Head(names)] ELSE 0)}})

\* GUI.update_dimensions; the reader has no frame_rate.
UpdateDimensions(g) ==
    The({[sized EXCEPT !.r = WrapperSetAttr(WrapperSetAttr(@, "iter_axes", <<>>),
                                            "bundle_axes",
                                            SelectSeq(<<"y", "x">>, LAMBDA a : a \in DOMAIN sizes))] :
            sized \in {SizesLoop(g, DimNames)}})

\* GUI.open(fileName) of a file pims can open: the reader is replaced by a
\* new one, then update_dimensions and showFrame.
OpenFile(dims) ==
    ShowFrame(UpdateDimensions([dims |-> dims, r |-> NewReader, played |-> <<>>,
                                frame |-> NoArray]))

\* The record of a handler of the viewer: what Called records of the frame
\* it fetched last, and the dimensions whose play_event was handled.
Handled(op, g) ==
    [op |-> op, err |-> g.r.err, i |-> 0,
     dims |-> g.frame.dims, pin |-> g.frame.pin, nreads |-> Len(g.frame.reads),
     md |-> g.frame.md, played |-> g.played]

\* What a handler of the viewer leaves behind.
GuiLeaves(op, g) ==
    /\ dimensions' = g.dims
    /\ Leaves(g.r)
    /\ last' = Handled(op, g)
    /\ UNCHANGED <<meta, plugin, methods, has2D, hashOrder, failing, sizes>>

\* File > Open, of the file that is open.
Open == \E g \in {OpenFile(dimensions)} : GuiLeaves("open", g)

\* playButton.clicked of dimension d: Dimension.click_event
ClickEvent(d) ==
    /\ dimensions[d].enabled
    /\ IF dimensions[d].playable
       THEN GuiLeaves("click_event", [GuiNow EXCEPT !.dims[d].playing = ~@])
       ELSE GuiLeaves("click_event", GuiNow)

\* playTimer.timeout of dimension d, whose timer runs while it is playing:
\* Dimension.play_tick
PlayTick(d) ==
    /\ dimensions[d].playing
    /\ \E g \in {PositionSetter(GuiNow, d,
                                dimensions[d].position + TickStep(dimensions[d].fps))} :
          /\ g.dims[d].position <= MaxPosition
          /\ GuiLeaves("play_tick", g)

\* The user drags the slider of dimension d to v.
SliderMoved(d, v) ==
    /\ dimensions[d].enabled
    /\ v \in dimensions[d].smin..dimensions[d].smax
    /\ v # dimensions[d].slider
    /\ \E g \in {SliderSetValue(GuiNow, d, v)} : GuiLeaves("slider", g)

\* posButton.pressed of dimension d, the dialog accepted with position:
\* Dimension.update_position_from_btn
UpdatePositionFromBtn(d, position) ==
    /\ dimensions[d].enabled
    /\ position \in 0..(dimensions[d].size - 1)
    /\ \E g \in {PositionSetter(GuiNow, d, position)} : GuiLeaves("posButton", g)

\* dimensions[d].position = position, by a plugin or a script, for a
\* dimension the viewer shows
AssignPosition(d, position) ==
    /\ dimensions[d].enabled
    /\ \E g \in {PositionSetter(GuiNow, d, position)} : GuiLeaves("position", g)

\* fpsButton.pressed of dimension d, the dialog accepted with fps:
\* Dimension.fps_changed
FpsChanged(d, fps) ==
    /\ dimensions[d].enabled
    /\ fps # dimensions[d].fps
    /\ GuiLeaves("fps_changed", [GuiNow EXCEPT !.dims[d].fps = fps])

\* mergeButton.clicked of dimension d: Dimension.update_merge with the
\* button's new state
UpdateMerge(d) ==
    /\ dimensions[d].enabled
    /\ dimensions[d].mergeable
    /\ \E g \in {MergeSetter(GuiNow, d, ~dimensions[d].merge)} :
          GuiLeaves("update_merge", g)

\* --------------------------------------------------------- specifications

\* Read methods that return plain arrays: no frame has metadata.
NoMeta == [a |-> "absent", b |-> "absent", frame |-> "never"]

\* A SelectionPlugin as its constructor leaves it.
NewPlugin == [features |-> 0, undo |-> <<>>, redo |-> <<>>]

\* A reader used on its own: no wrapper, no Dimension widget, no edit made.
NoViewer ==
    /\ cache = <<>>
    /\ dimensions = <<>>
    /\ plugin = NewPlugin

\* The reader as its constructor leaves it: every _init_axis(name, size)
\* made (default 0), nothing assigned yet.
Constructed(ms, h2d, order, sz) ==
    /\ methods = ms
    /\ has2D = h2d
    /\ hashOrder = order
    /\ sizes = sz
    /\ default_coords = [a \in DOMAIN sz |-> 0]
    /\ iter_axes = <<>>
    /\ bundle_axes = <<>>
    /\ wrapped = None
    /\ last = Called("__init__", "", 0, NoArray)

\* Lists of distinct axis names of length at most n.
DistinctLists(n) == {s \in SeqsUpTo(Axes, n) : IsDistinct(s)}

\* Values assigned to bundle_axes and iter_axes: lists of distinct names, and
\* lists that repeat a name.
AxisLists(n) == DistinctLists(n) \cup {<<a, a>> : a \in {"x"}}

\* Values assigned to default_coords.
CoordMaps ==
    {[a \in {"c"} |-> v] : v \in {1, MaxCoord}} \cup {[a \in {"c", "x"} |-> 1]}

\* Readers of the facade specification: one tagged method, the untagged
\* get_frame_2D, or no read method at all; all axes registered, or all but c.
FacadeReaders ==
    {[methods |-> << <<"y", "x">> >>, has2D |-> FALSE, axes |-> Axes],
     [methods |-> << <<"y", "x", "c">> >>, has2D |-> FALSE, axes |-> Axes],
     [methods |-> <<>>, has2D |-> TRUE, axes |-> {"x", "y"}],
     [methods |-> <<>>, has2D |-> FALSE, axes |-> {"x", "y"}]}

\* The size the facade specification's constructors register for an axis.
FacadeSize(a) == IF a = "y" THEN MaxSize ELSE MaxSize - 1

Init ==
    \E rd \in FacadeReaders :
        /\ Constructed(rd.methods, rd.has2D, <<"c", "x", "y">>,
                       [a \in rd.axes |-> FacadeSize(a)])
        /\ failing = {}
        /\ meta = NoMeta
        /\ NoViewer

Next ==
    \/ \E value \in AxisLists(MaxBundleLen) : SetBundleAxes(value)
    \/ \E value \in AxisLists(MaxIterLen) : SetIterAxes(value)
    \/ \E value \in CoordMaps : SetDefaultCoords(value)
    \/ \E i \in 0..(Length + 1) : GetFrame(i)

Spec == Init /\ [][Next]_vars

\* Axis tuples a reader class tags a read method with (reads_axes).
NativeAxes ==
    {<<"x">>, <<"y">>, <<"c">>, <<"y", "x">>, <<"x", "y">>,
     <<"y", "x", "c">>, <<"c", "y", "x">>}

\* Reader classes with 1..MaxMethods tagged methods, as enumerated.
PlanReaders ==
    {ms \in SeqsUpTo(NativeAxes, MaxMethods) : ms # <<>> /\ IsDistinct(ms)}

\* Registries of the planner specification: every axis registered, each
\* with more than one coordinate.
PlanSizes == [Axes -> 2..MaxPlanSize]

InitPlan ==
    \E sz \in PlanSizes, ms \in PlanReaders, order \in Perms(Axes) :
        /\ Constructed(ms, FALSE, order, sz)
        /\ failing = {}
        /\ meta = NoMeta
        /\ NoViewer

\* One bundle_axes assignment on a new reader, then reads.
NextPlan ==
    \/ /\ last.op = "__init__"
       /\ \E value \in DistinctLists(Cardinality(Axes)) : SetBundleAxes(value)
    \/ /\ last.op = "bundle_axes"
       /\ \E i \in 0..(Length - 1) : GetFrame(i)

SpecPlan == InitPlan /\ [][NextPlan]_vars

\* A reader object on which nothing has been called yet: no axis registry.
New(ms, h2d, order) ==
    /\ methods = ms
    /\ has2D = h2d
    /\ hashOrder = order
    /\ sizes = <<>>
    /\ default_coords = <<>>
    /\ iter_axes = <<>>
    /\ bundle_axes = <<>>
    /\ wrapped = None
    /\ last = Called("__new__", "", 0, NoArray)

InitRegistry ==
    /\ New(<< <<"y", "x">> >>, FALSE, <<"c", "x", "y">>)
    /\ failing = {}
    /\ meta = NoMeta
    /\ NoViewer

\* A subclass constructor and its caller: axes are registered, with a default
\* coordinate or without (0), and default coordinates are assigned.
NextRegistry ==
    \/ \E name \in Axes, size \in 1..MaxSize, default \in {0, 1} :
          InitAxis(name, size, default)
    \/ /\ last.op # "__new__"
       /\ \E value \in CoordMaps : SetDefaultCoords(value)

SpecRegistry == InitRegistry /\ [][NextRegistry]_vars

\* Reader classes that define an untagged get_frame_2D, with no tagged
\* method or with one.
InitCompat ==
    \E sz \in PlanSizes, ms \in SeqsUpTo(NativeAxes, 1) :
        /\ Constructed(ms, TRUE, <<"c", "x", "y">>, sz)
        /\ failing = {}
        /\ meta = NoMeta
        /\ NoViewer

SpecCompat == InitCompat /\ [][NextPlan]_vars

\* Readers whose read method raises for one coordinate of c: a method that
\* returns y and x, or x only.
InitFailing ==
    \E ms \in {<< <<"y", "x">> >>, << <<"x">> >>} :
        /\ Constructed(ms, FALSE, <<"c", "x", "y">>, [a \in Axes |-> FacadeSize(a)])
        /\ failing = {[ax |-> "c", v |-> 1]}
        /\ meta = NoMeta
        /\ NoViewer

NextFailing ==
    \/ \E value \in DistinctLists(Cardinality(Axes)) : SetBundleAxes(value)
    \/ \E value \in DistinctLists(MaxIterLen) : SetIterAxes(value)
    \/ \E i \in 0..(Length - 1) : GetFrame(i)

SpecFailing == InitFailing /\ [][NextFailing]_vars

\* What the read methods of a reader attach to their frames: key "a"
\* missing, constant, following c, distinct for every (c, y), or missing for
\* one coordinate of c; key "b" constant or following y; and the metadata
\* as a whole on every frame, on none, or on all but those of one c.
MetaModes ==
    [a : {"absent", "const", "c", "index", "absentAt"},
     b : {"const", "y"},
     frame : {"always", "never", "noneAt"}]

\* Readers with one method that returns x, or y and x, and attaches
\* metadata.
InitMeta ==
    \E ms \in {<< <<"x">> >>, << <<"y", "x">> >>}, order \in Perms(Axes), mt \in MetaModes :
        /\ Constructed(ms, FALSE, order, [a \in Axes |-> FacadeSize(a)])
        /\ failing = {}
        /\ meta = mt
        /\ NoViewer

SpecMeta == InitMeta /\ [][NextPlan]_vars

\* A WrappedReader around a new reader with a ('y', 'x') method.
InitWrapper ==
    /\ Constructed(<< <<"y", "x">> >>, FALSE, <<"c", "x", "y">>,
                   [a \in Axes |-> FacadeSize(a)])
    /\ failing = {}
    /\ meta = NoMeta
    /\ NoViewer

\* Reads and writes of the three attributes through the wrapper, and reads
\* of frames.
NextWrapper ==
    \/ \E attr \in WrappedAttrs : WrapperGet(attr)
    \/ \E value \in DistinctLists(MaxBundleLen) : WrapperSet("bundle_axes", value)
    \/ \E value \in DistinctLists(MaxIterLen) : WrapperSet("iter_axes", value)
    \/ \E value \in CoordMaps : WrapperSet("default_coords", value)
    \/ \E i \in 0..(Length - 1) : WrapperGetItem(i)

SpecWrapper == InitWrapper /\ [][NextWrapper]_vars

\* A SelectionPlugin on its own: the reader plays no part.
InitPlugin ==
    /\ Constructed(<< <<"y", "x">> >>, FALSE, <<"c", "x", "y">>,
                   [a \in Axes |-> FacadeSize(a)])
    /\ failing = {}
    /\ meta = NoMeta
    /\ NoViewer

NextPlugin ==
    \/ \E new_f \in 1..MaxEdits : SetFeatures(new_f)
    \/ Undo
    \/ Redo

SpecPlugin == InitPlugin /\ [][NextPlugin]_vars

\* The sizes of the file the viewer opens: a series over t of images with
\* channels c.
ViewerSizes == [a \in {"t", "c", "x", "y"} |-> IF a \in {"t", "y"} THEN MaxSize ELSE MaxSize - 1]

\* Frame rates the user enters.
Rates == {DefaultFps, 15}

\* The viewer after GUI() and open(fileName), the reader having a
\* ('y', 'x') method.
InitGui ==
    /\ methods = << <<"y", "x">> >>
    /\ has2D = FALSE
    /\ hashOrder = <<"c", "t", "x", "y">>
    /\ sizes = ViewerSizes
    /\ failing = {}
    /\ meta = NoMeta
    /\ plugin = NewPlugin
    /\ \E g \in {OpenFile(NewDimensions)} :
          /\ dimensions = g.dims
          /\ cache = g.r.cache
          /\ iter_axes = g.r.iter_axes
          /\ bundle_axes = g.r.bundle_axes
          /\ default_coords = g.r.default_coords
          /\ wrapped = g.r.wrapped
          /\ last = Handled("open", g)

\* What the user, the timers and the plugins do to the viewer.
NextGui ==
    \/ Open
    \/ \E d \in ToSet(DimNames) : ClickEvent(d)
    \/ \E d \in ToSet(DimNames) : PlayTick(d)
    \/ \E d \in ToSet(DimNames), v \in 0..(MaxSize - 1) : SliderMoved(d, v)
    \/ \E d \in ToSet(DimNames), position \in 0..(MaxSize - 1) : UpdatePositionFromBtn(d, position)
    \/ \E d \in ToSet(DimNames), position \in (-MaxPosition)..MaxPosition : AssignPosition(d, position)
    \/ \E d \in ToSet(DimNames), fps \in Rates : FpsChanged(d, fps)
    \/ \E d \in ToSet(DimNames) : UpdateMerge(d)

SpecGui == InitGui /\ [][NextGui]_vars

\* -------------------------------------------------------------------- claims

\* The planner specification reads through all three wrappers.
ReadThroughAllWrappers ==
    /\ last.op = "get_frame"
    /\ last.err = ""
    /\ Len(wrapped.layers) = 3
    /\ wrapped.layers[1].names # <<>>
    /\ wrapped.layers[2].names # <<>>

\* C1 Shape law: once bundle_axes has been assigned a list of distinct
\* registered axes, on a reader with one or more tagged read methods,
\* get_frame(i) with 0 <= i < len() returns a Frame, and its shape is
\* (sizes[a] for a in bundle_axes).
C1_ShapeLaw ==
    last.op = "get_frame" =>
        /\ last.err = ""
        /\ ShapeOf(last.dims) = FrameShape

\* C1 witness: a read whose native method has an axis to drop and lacks an
\* axis to iterate over, with more than one element along each.
C1_Witness ==
    /\ ReadThroughAllWrappers
    /\ Len(last.dims) = 2
    /\ last.dims[1].n # last.dims[2].n
    /\ last.nreads > 1

\* C7 Exact match first: when a method is tagged with exactly the assigned
\* bundle_axes, the planner returns that method itself, with no wrapper,
\* whatever other methods are tagged and however they are enumerated.
C7_ExactMatchFirst ==
    (last.op = "bundle_axes" /\ last.err = "" /\ bundle_axes \in ToSet(methods))
        => wrapped = Native(bundle_axes)

\* The product of the sizes of a set of axes.
SizeOver(S) ==
    LET l == ListOfSet(S, hashOrder) IN Prod([k \in DOMAIN l |-> sizes[l[k]]])

\* The tagged methods whose axes are all among the target's.
SubsetMethods(target) == {m \in ToSet(methods) : ToSet(m) \subseteq ToSet(target)}

\* C8 Iterate-to-bundle before drop: when no method has the axis set of the
\* assigned bundle_axes and some method's axes are a subset of it, the planner
\* picks a subset method with the least product of sizes of the missing axes,
\* also when a superset or partly overlapping method is tagged.
C8_SubsetMethodFirst ==
    (/\ last.op = "bundle_axes"
     /\ last.err = ""
     /\ \A m \in ToSet(methods) : ToSet(m) # ToSet(bundle_axes)
     /\ SubsetMethods(bundle_axes) # {})
        => /\ wrapped.method \in SubsetMethods(bundle_axes)
           /\ \A m \in SubsetMethods(bundle_axes) :
                 SizeOver(ToSet(bundle_axes) \ ToSet(wrapped.method))
                     <= SizeOver(ToSet(bundle_axes) \ ToSet(m))

\* What a caller can see of a synthesized function: the native method it
\* reads with, the reads it makes and the array it returns for the current
\* coordinates, and the shape of the stacked metadata arrays (iter_shape).
Behaviour(gf) ==
    [method |-> gf.method,
     layout |-> {w.nums : w \in {gf.layers[k] : k \in {j \in DOMAIN gf.layers :
                                                      gf.layers[j].k = "bundle"}}},
     result |-> CallWrapped(gf, Coords(0, iter_axes), sizes)]

\* C9 Strategy selection determinism: for the tagged methods, the sizes and
\* the assigned bundle_axes, the function planned reads with the same method
\* and behaves the same whatever the order in which the methods are
\* enumerated and whatever the order in which sets of axes are listed.
C9_Deterministic ==
    (last.op = "bundle_axes" /\ last.err = "")
        => \A ms \in Perms(ToSet(methods)), order \in Perms(Axes) :
              Behaviour(MakeGetFrame(bundle_axes, ms, order, sizes)) = Behaviour(wrapped)

\* C2 Plan coherence: after any assignments of bundle_axes and iter_axes, the
\* array the next get_frame returns has the shape frame_shape, the sizes of
\* the current bundle_axes.
C2_PlanCoherence ==
    (last.op = "get_frame" /\ last.err = "") => ShapeOf(last.dims) = FrameShape

\* C3 Partition exclusivity: on a reader with a read method (every assignment
\* is accepted, or rejected with nothing changed), after any assignments of
\* bundle_axes and iter_axes, values that repeat a name included, no axis
\* name is in both lists.
C3_Disjoint ==
    GetFrameDict # <<>> => ToSet(bundle_axes) \cap ToSet(iter_axes) = {}

\* C4 Index range: get_frame(i) raises IndexError, and returns no Frame, for
\* every i >= len(), i = len() included (stated for a reader that iterates
\* over distinct axes and holds the function planned for its bundle_axes, a
\* list of distinct axes, so that nothing else can raise first).
C4_IndexRange ==
    [][\A i \in 0..(Length + 1) :
          (/\ i >= Length
           /\ iter_axes # <<>>
           /\ IsDistinct(iter_axes)
           /\ IsDistinct(bundle_axes)
           /\ wrapped = MakeGetFrame(bundle_axes, GetFrameDict, hashOrder, sizes)
           /\ GetFrame(i))
              => (last'.err = "IndexError" /\ last'.dims = <<>>)]_vars

\* The k-th digit of i in the mixed radix of the sizes of iter_axes, last
\* axis fastest: (i // prod(s[j] for j > k)) mod s[k].
RadixCoord(i, k) ==
    (i \div Prod([j \in 1..(Len(iter_axes) - k) |-> sizes[iter_axes[k + j]]]))
        % sizes[iter_axes[k]]

\* C5 Index decomposition: for iter_axes a list of distinct axes and every
\* i in [0, len()), get_frame passes RadixCoord(i, k) for the k-th axis of
\* iter_axes and the default coordinate for every axis not in iter_axes
\* (none is overridden when iter_axes is empty); distinct indices give
\* distinct coordinates; and the Frame returned is read at these coordinates.
C5_IndexDecomposition ==
    IsDistinct(iter_axes) =>
        /\ \A i \in 0..(Length - 1) :
              /\ \A k \in DOMAIN iter_axes :
                    Coords(i, iter_axes)[iter_axes[k]] = RadixCoord(i, k)
              /\ \A a \in DOMAIN sizes \ ToSet(iter_axes) :
                    Coords(i, iter_axes)[a] = default_coords[a]
        /\ \A i, j \in 0..(Length - 1) :
              Coords(i, iter_axes) = Coords(j, iter_axes) => i = j
        /\ (last.op = "get_frame" /\ last.err = "" /\ last.i < Length) =>
              \A k \in DOMAIN iter_axes :
                  iter_axes[k] \in DOMAIN last.pin =>
                      last.pin[iter_axes[k]] = RadixCoord(last.i, k)

\* C5 witness: the last frame of a reader iterating over two axes of
\* different sizes, read at a coordinate above 0 on both.
C5_Witness ==
    /\ last.op = "get_frame"
    /\ last.err = ""
    /\ Len(iter_axes) = 2
    /\ IsDistinct(iter_axes)
    /\ sizes[iter_axes[1]] # sizes[iter_axes[2]]
    /\ last.i = Length - 1
    /\ \A k \in 1..2 : iter_axes[k] \in DOMAIN last.pin /\ last.pin[iter_axes[k]] > 0

\* C6 Length: len() is the number of coordinate tuples of iter_axes, the
\* product of the sizes of its axes, and 1 when iter_axes is empty.
C6_Length ==
    /\ Length = Cardinality({f \in [DOMAIN iter_axes -> 0..(MaxSize - 1)] :
                               \A k \in DOMAIN iter_axes : f[k] < sizes[iter_axes[k]]})
    /\ iter_axes = <<>> => Length = 1

\* C6 witness: a bundle_axes assignment has left one axis to iterate over.
C6_Witness ==
    /\ last.op = "bundle_axes"
    /\ last.err = ""
    /\ bundle_axes # <<>>
    /\ Len(iter_axes) = 1
    /\ Length = MaxSize

\* A call that raised ValueError and changed nothing.
Rejected ==
    /\ last'.err = "ValueError"
    /\ UNCHANGED <<bundle_axes, iter_axes, default_coords, wrapped, sizes>>

\* C10 Configuration errors: assigning bundle_axes or iter_axes a value that
\* names an unregistered axis, or default_coords a mapping with an
\* unregistered key, raises ValueError and leaves bundle_axes, iter_axes,
\* default_coords and the cached function as they were.
C10_RejectedUnchanged ==
    [][/\ \A value \in AxisLists(MaxBundleLen) :
             (Invalid(ToSet(value)) # {} /\ SetBundleAxes(value)) => Rejected
       /\ \A value \in AxisLists(MaxIterLen) :
             (Invalid(ToSet(value)) # {} /\ SetIterAxes(value)) => Rejected
       /\ \A value \in CoordMaps :
             (Invalid(DOMAIN value) # {} /\ SetDefaultCoords(value)) => Rejected]_vars

\* C10 witness: a default_coords assignment was rejected on a planned reader.
C10_Witness ==
    /\ last.op = "default_coords"
    /\ last.err = "ValueError"
    /\ wrapped # None
    /\ bundle_axes # <<>>
    /\ iter_axes # <<>>

\* C11 Duplicate axis: _init_axis with a name that is already registered
\* raises ValueError, also when the name is the first one registered, and
\* leaves sizes and default_coords as they were.
C11_DuplicateAxis ==
    [][\A name \in Axes, size \in 1..MaxSize, default \in {0, 1} :
          (last.op # "__new__" /\ name \in DOMAIN sizes /\ InitAxis(name, size, default))
              => /\ last'.err = "ValueError"
                 /\ UNCHANGED <<sizes, default_coords>>]_vars

\* C11 witness: the only axis registered was registered again, and refused.
C11_Witness ==
    /\ last.op = "_init_axis"
    /\ last.err = "ValueError"
    /\ Cardinality(DOMAIN sizes) = 1

\* C12 Coordinate range: every stored default coordinate, and every
\* coordinate get_frame(i), 0 <= i < len(), passes to the synthesized
\* function for an axis a, is in [0, sizes[a]).
C12_CoordinateRange ==
    \A a \in DOMAIN sizes :
        /\ default_coords[a] \in 0..(sizes[a] - 1)
        /\ \A i \in 0..(Length - 1) : Coords(i, iter_axes)[a] \in 0..(sizes[a] - 1)

\* C13 Eager planning: on a reader with no tagged read method and no
\* get_frame_2D, assigning bundle_axes a list of registered axes raises
\* RuntimeError at the assignment, with no read made.
C13_EagerFailure ==
    [][\A value \in AxisLists(MaxBundleLen) :
          (/\ methods = <<>>
           /\ ~has2D
           /\ Invalid(ToSet(value)) = {}
           /\ SetBundleAxes(value))
              => (last'.err = "RuntimeError" /\ last'.nreads = 0)]_vars

\* C13 witness: a bundle_axes assignment of registered axes raised
\* RuntimeError.
C13_Witness ==
    /\ last.op = "bundle_axes"
    /\ last.err = "RuntimeError"
    /\ bundle_axes # <<>>

\* The cached function is the one planned for the given bundle_axes (PLANNED).
PlannedFor(gf, axes) ==
    /\ GetFrameDict # <<>>
    /\ gf = MakeGetFrame(axes, GetFrameDict, hashOrder, sizes)

\* C14 Lazy planning: a get_frame that finds no synthesized function plans
\* one first, without changing bundle_axes or iter_axes; after every
\* successful get_frame the cached function is the one planned for the
\* current bundle_axes; and it stays so until bundle_axes is assigned.
C14_LazyPlanning ==
    [][/\ \A i \in 0..(Length + 1) :
             (GetFrame(i) /\ last'.err = "") =>
                 /\ wrapped = None => UNCHANGED <<bundle_axes, iter_axes>>
                 /\ PlannedFor(wrapped', bundle_axes')
       /\ (PlannedFor(wrapped, bundle_axes) /\ last'.op # "bundle_axes")
             => PlannedFor(wrapped', bundle_axes')]_vars

\* C15 Re-planning frame condition: an iter_axes or default_coords
\* assignment leaves the cached function and sizes as they were; the cached
\* function changes only in a bundle_axes assignment, or in a get_frame that
\* found none.
C15_ReplanOnlyOnBundle ==
    [][/\ \A value \in AxisLists(MaxIterLen) :
             SetIterAxes(value) => UNCHANGED <<wrapped, sizes>>
       /\ \A value \in CoordMaps :
             SetDefaultCoords(value) => UNCHANGED <<wrapped, sizes>>
       /\ wrapped' # wrapped =>
             \/ last'.op = "bundle_axes"
             \/ (last'.op = "get_frame" /\ wrapped = None)]_vars

\* C15 witness: an iter_axes assignment took an axis out of bundle_axes and
\* the function planned before it is still cached.
C15_Witness ==
    /\ last.op = "iter_axes"
    /\ last.err = ""
    /\ wrapped # None
    /\ IsDistinct(iter_axes)
    /\ ~PlannedFor(wrapped, bundle_axes)

\* C16 Backward-compatible fallback: on a reader with no tagged method and a
\* get_frame_2D, planning reads with get_frame_2D as the method ('y', 'x'),
\* and for every bundle_axes of distinct axes get_frame returns an array of
\* shape frame_shape; on a reader with a tagged method, the function planned
\* reads with a tagged method, not with the untagged get_frame_2D.
C16_Fallback ==
    /\ (methods = <<>> /\ has2D) =>
          /\ GetFrameDict = << <<"y", "x">> >>
          /\ last.op = "bundle_axes" => (last.err = "" /\ wrapped.method = <<"y", "x">>)
          /\ last.op = "get_frame" => (last.err = "" /\ ShapeOf(last.dims) = FrameShape)
    /\ methods # <<>> =>
          /\ GetFrameDict = methods
          /\ last.op = "bundle_axes" => (last.err = "" /\ wrapped.method \in ToSet(methods))

\* C16 witness: get_frame_2D read once for every c, and the stack transposed.
C16_Witness ==
    /\ methods = <<>>
    /\ has2D
    /\ last.op = "get_frame"
    /\ last.err = ""
    /\ bundle_axes = <<"x", "c", "y">>
    /\ last.nreads = sizes["c"]

\* C17 Idempotence of re-planning: assigning bundle_axes its current value,
\* on a reader that holds a synthesized function, leaves bundle_axes,
\* iter_axes and default_coords unchanged, and the function planned makes the
\* same reads and returns the same array as the one before, for the
\* coordinates of every index.
C17_Idempotent ==
    [][\A value \in AxisLists(MaxBundleLen) :
          (value = bundle_axes /\ wrapped # None /\ SetBundleAxes(value)) =>
              /\ UNCHANGED <<bundle_axes, iter_axes, default_coords>>
              /\ \A i \in 0..(Length - 1) :
                    CallWrapped(wrapped', Coords(i, iter_axes), sizes)
                        = CallWrapped(wrapped, Coords(i, iter_axes), sizes)]_vars

\* The coordinates at which a synthesized function calls its read method
\* when called with ind: ind itself, or ind with every combination of
\* coordinates of the axes it iterates over.
SubReads(gf, ind) ==
    LET b == {k \in DOMAIN gf.layers : gf.layers[k].k = "bundle"}
        to_iter == IF b = {} THEN {} ELSE ToSet(gf.layers[CHOOSE k \in b : TRUE].names)
    IN  {Update(ind, m) : m \in {f \in [to_iter -> 0..(MaxSize - 1)] :
                                    \A a \in to_iter : f[a] < sizes[a]}}

InRange == {ind \in [DOMAIN sizes -> 0..(MaxPlanSize - 1)] :
               \A a \in DOMAIN sizes : ind[a] < sizes[a]}

\* C19 Drop correctness: when the method the planner selected returns a
\* strict superset of bundle_axes, the synthesized function, for every
\* coordinate assignment, calls the method once with that assignment and
\* returns an array over bundle_axes, in that order, with every other axis,
\* the superfluous ones included, fixed at its coordinate in the assignment.
C19_DropCorrect ==
    (/\ last.op = "bundle_axes"
     /\ last.err = ""
     /\ ToSet(bundle_axes) \subseteq ToSet(wrapped.method)
     /\ ToSet(bundle_axes) # ToSet(wrapped.method))
        => \A ind \in InRange :
              LET r == CallWrapped(wrapped, ind, sizes)
              IN  /\ r.err = ""
                  /\ r.reads = <<ind>>
                  /\ LabelsOf(r.dims) = bundle_axes
                  /\ ShapeOf(r.dims) = FrameShape
                  /\ r.pin = Restrict(ind, DOMAIN sizes \ ToSet(bundle_axes))

\* C19 witness: a read that dropped two axes of its method, one of them the
\* first of the method's tuple.
C19_Witness ==
    /\ last.op = "get_frame"
    /\ last.err = ""
    /\ last.nreads = 1
    /\ wrapped.method \in {<<"c", "y", "x">>, <<"y", "x", "c">>}
    /\ Len(bundle_axes) = 1
    /\ wrapped.layers[1].k = "drop"
    /\ Len(wrapped.layers[1].names) = 2

\* C20 Iterate-to-bundle correctness: when the method the planner selected
\* returns a strict subset of bundle_axes, the synthesized function, for
\* every coordinate assignment, reads once for every combination of
\* coordinates of the missing axes, the other axes at their assigned
\* coordinates, stores each frame at the slice of its combination, and
\* returns an array over bundle_axes, in that order.
C20_BundleCorrect ==
    (/\ last.op = "bundle_axes"
     /\ last.err = ""
     /\ ToSet(wrapped.method) \subseteq ToSet(bundle_axes)
     /\ ToSet(wrapped.method) # ToSet(bundle_axes))
        => \A ind \in InRange :
              LET r == CallWrapped(wrapped, ind, sizes)
                  missing == ToSet(bundle_axes) \ ToSet(wrapped.method)
                  combos == {m \in [missing -> 0..(MaxPlanSize - 1)] :
                                \A a \in missing : m[a] < sizes[a]}
              IN  /\ r.err = ""
                  /\ ToSet(r.reads) = {Update(ind, m) : m \in combos}
                  /\ Len(r.reads) = Cardinality(combos)
                  /\ LabelsOf(r.dims) = bundle_axes
                  /\ ShapeOf(r.dims) = FrameShape
                  /\ r.pin = Restrict(ind, DOMAIN sizes \ ToSet(bundle_axes))

\* C20 witness: a method that returns x only, read for every (c, y), and the
\* stack transposed into the order of bundle_axes.
C20_Witness ==
    /\ last.op = "get_frame"
    /\ last.err = ""
    /\ wrapped.method = <<"x">>
    /\ Len(bundle_axes) = 3
    /\ last.nreads = sizes["c"] * sizes["y"]
    /\ sizes["c"] # sizes["y"]
    /\ wrapped.layers[Len(wrapped.layers)].k = "T"

\* The axes of bundle_axes the selected method does not return, as listed in
\* bundle_axes.
MissingAxes == SelectSeq(bundle_axes, LAMBDA a : a \notin ToSet(wrapped.method))

\* The number of native reads of one call, and that they are distinct.
ReadCountOf(r) ==
    /\ r.err = ""
    /\ Len(r.reads) = Prod([k \in DOMAIN MissingAxes |-> sizes[MissingAxes[k]]])
    /\ IsDistinct(r.reads)

\* C21 Read count: one call of the synthesized function makes one native read
\* for every coordinate combination of the missing axes (one read when none
\* is missing: exact match, transpose only, drop), all distinct, in row-major
\* order over the missing axes as bundle_axes lists them, the last fastest.
C21_ReadCount ==
    (last.op = "bundle_axes" /\ last.err = "")
        => \A ind \in InRange :
              LET r == CallWrapped(wrapped, ind, sizes)
                  shape == [k \in DOMAIN MissingAxes |-> sizes[MissingAxes[k]]]
              IN  /\ ReadCountOf(r)
                  /\ \A j \in DOMAIN r.reads :
                        r.reads[j] = Update(ind, [a \in ToSet(MissingAxes) |->
                            NdIndex(j - 1, shape)[IndexOf(MissingAxes, a) + 1]])

\* The count of C21 without the order of the reads.
C21_CountOnly ==
    (last.op = "bundle_axes" /\ last.err = "")
        => \A ind \in InRange : ReadCountOf(CallWrapped(wrapped, ind, sizes))

\* The cost signature of a method for the current bundle_axes: the product of
\* the sizes of the missing axes, then of the superfluous axes.
Cost(m) ==
    <<SizeOver(ToSet(bundle_axes) \ ToSet(m)), SizeOver(ToSet(m) \ ToSet(bundle_axes))>>

\* No method's axis set is a subset or a superset of bundle_axes.
AllMixed ==
    \A m \in ToSet(methods) :
        /\ ~(ToSet(m) \subseteq ToSet(bundle_axes))
        /\ ~(ToSet(bundle_axes) \subseteq ToSet(m))

C23_PlannerTotal ==
    last.op = "bundle_axes" =>
        /\ last.err = ""
        /\ wrapped.err = ""
        /\ wrapped.method \in ToSet(methods)
        /\ bundle_axes = <<>> => CallWrapped(wrapped, default_coords, sizes).dims = <<>>

\* C23 witness: the empty bundle_axes was planned on a reader with two
\* methods, and read.
C23_Witness ==
    /\ last.op = "get_frame"
    /\ last.err = ""
    /\ bundle_axes = <<>>
    /\ Len(methods) = 2
    /\ wrapped.layers # <<>>

\* The position of the index tuple idx in an array of the given shape, in
\* row-major order.
RECURSIVE FlatIndex(_, _)
FlatIndex(idx, shape) ==
    IF shape = <<>> THEN 0
    ELSE LET n == Len(shape)
         IN  FlatIndex(SubSeq(idx, 1, n - 1), SubSeq(shape, 1, n - 1)) * shape[n] + idx[n]

\* The coordinate combinations of the missing axes: one sub-read each.
Combos ==
    {m \in [ToSet(MissingAxes) -> 0..(MaxSize - 1)] :
        \A a \in ToSet(MissingAxes) : m[a] < sizes[a]}

\* The metadata of the sub-read of the last get_frame at the combination m.
SubMd(m) == NativeMetadata(Update(Coords(last.i, iter_axes), m))

\* The last call was a get_frame served by iterating over missing axes.
IteratedToBundle ==
    /\ last.op = "get_frame"
    /\ last.err = ""
    /\ ToSet(wrapped.method) \subseteq ToSet(bundle_axes)
    /\ MissingAxes # <<>>

\* C24 Metadata merge: when every sub-read of an iterate-to-bundle read
\* produced metadata, a key that all of them have is merged to the one value
\* if the values are equal, and otherwise to an array with the shape of the
\* missing axes whose entry at index m is the value of the sub-read at the
\* coordinates m of the missing axes.
C24_MetadataMerge ==
    (IteratedToBundle /\ \A m \in Combos : SubMd(m).has)
        => /\ last.md.has
           /\ \A k \in {"a", "b"} :
                 (\A m \in Combos : k \in DOMAIN SubMd(m).d) =>
                     /\ k \in DOMAIN last.md.d
                     /\ IF \A m, n \in Combos : SubMd(m).d[k] = SubMd(n).d[k]
                        THEN \A m \in Combos : last.md.d[k] = SubMd(m).d[k]
                        ELSE LET shape == [j \in DOMAIN MissingAxes |-> sizes[MissingAxes[j]]]
                             IN  /\ last.md.d[k].shape = shape
                                 /\ \A m \in Combos :
                                       last.md.d[k].v[1 + FlatIndex(
                                           [j \in DOMAIN MissingAxes |-> m[MissingAxes[j]]],
                                           shape)] = SubMd(m).d[k].v[1]

\* C25 Metadata all-or-nothing: the frame of an iterate-to-bundle read has
\* metadata if and only if every sub-read produced metadata, and the array
\* is the same either way: over bundle_axes, of shape frame_shape, one read
\* for every combination.
C25_AllOrNothing ==
    IteratedToBundle =>
        /\ last.md.has <=> \A m \in Combos : SubMd(m).has
        /\ LabelsOf(last.dims) = bundle_axes
        /\ ShapeOf(last.dims) = FrameShape
        /\ last.nreads = Cardinality(Combos)

\* C25 witness: the frames of one coordinate of c have no metadata, those of
\* the others have, and the frame bundled over c and y has none.
C25_Witness ==
    /\ IteratedToBundle
    /\ meta.frame = "noneAt"
    /\ ToSet(MissingAxes) = {"c", "y"}
    /\ \E m \in Combos : SubMd(m).has
    /\ ~last.md.has

\* C26 Index round trip: for iter_axes a list of distinct axes and every i in
\* [0, len()), get_frame_no of the coordinates get_frame decomposes i into,
\* over the axes of iter_axes, is i again.
C26_IndexRoundTrip ==
    IsDistinct(iter_axes) =>
        \A i \in 0..(Length - 1) : GetFrameNo(Coords(i, iter_axes), iter_axes) = i

\* C28 WrappedReader coherence: after any reads and writes of bundle_axes,
\* iter_axes and default_coords through the wrapper, wrapper.bundle_axes and
\* wrapper.iter_axes evaluate to the axes the reader holds.
C28_WrapperCoherent ==
    \A attr \in {"bundle_axes", "iter_axes"} :
        WrapperValue(ReaderNow, attr) = ReaderNow[attr]

RECURSIVE EditsThenUndos(_, _, _)
\* p after k more edits (versions from MaxEdits + 1 on) and then n undos.
EditsThenUndos(p, k, n) ==
    IF k > 0 THEN EditsThenUndos(PlSetFeatures(p, MaxEdits + k), k - 1, n)
    ELSE IF n > 0 THEN EditsThenUndos(PlUndo(p), 0, n - 1)
    ELSE p

\* C30 Undo/redo round trip: after set_features(f) on features g, undo()
\* restores g and a following redo() restores f; k <= 10 set_features
\* followed by k undo() restore the features held before them; set_features
\* empties the redo stack; undo() and redo() on an empty stack change nothing.
C30_UndoRedo ==
    /\ \A f \in {MaxEdits + 1} :
          /\ PlUndo(PlSetFeatures(plugin, f)).features = plugin.features
          /\ PlRedo(PlUndo(PlSetFeatures(plugin, f))).features = f
          /\ PlSetFeatures(plugin, f).redo = <<>>
    /\ \A k \in 1..UndoDepth : EditsThenUndos(plugin, k, k).features = plugin.features
    /\ plugin.undo = <<>> => PlUndo(plugin) = plugin
    /\ plugin.redo = <<>> => PlRedo(plugin) = plugin

\* C30 witness: more edits than the undo stack holds were made, and then as
\* many undos as it holds: the features are those before the last ten edits.
C30_Witness ==
    /\ plugin.features = MaxEdits - UndoDepth
    /\ plugin.undo = <<>>
    /\ Len(plugin.redo) = UndoDepth
    /\ plugin.redo[1] = MaxEdits

\* The dimensions that are playing.
Playing == {d \in DOMAIN dimensions : dimensions[d].playing}

\* reader.iter_axes as the viewer reads it, through the wrapper.
ViewerIterAxes == WrapperValue(ReaderNow, "iter_axes")

\* C27 GUI playback: at most one Dimension is playing at a time, and
\* reader.iter_axes holds at most one axis when a frame is fetched; whenever
\* a play_event from dimension d is handled while a different dimension is
\* playing, that other dimension's playback is stopped and iter_axes becomes
\* [d].
C27_OnePlayer ==
    /\ [](/\ Cardinality(Playing) <= 1
          /\ Len(ViewerIterAxes) <= 1
          /\ Len(iter_axes) <= 1)
    /\ [][\A d \in ToSet(DimNames) :
            (/\ last'.op # "open"
             /\ last'.played # <<>>
             /\ last'.played[Len(last'.played)] = d)
            => /\ \A e \in Playing \ {d} : ~dimensions'[e].playing
               /\ ViewerIterAxes' = <<d>>]_vars

\* C29 Dimension position range: for a Dimension with size > 0, after any
\* assignment to position (any integer, negative values and values >= 2*size
\* included, such as play_tick advancing by more than one position a tick)
\* the stored position lies in [0, size), and play_event is emitted only when
\* the stored position changed.
C29_PositionRange ==
    /\ [](\A d \in DOMAIN dimensions :
            dimensions[d].size > 0 =>
                dimensions[d].position \in 0..(dimensions[d].size - 1))
    /\ [][\A d \in ToSet(DimNames) :
            (last'.op # "update_merge" /\ d \in ToSet(last'.played))
            => dimensions'[d].position # dimensions[d].position]_vars

====
